---- MODULE Spec2Model ----
(***************************************************************************)
(* Model of cleaned_inventory_system.py: a process-wide dict stock_data    *)
(* from item key to quantity, the operations add_item, remove_item,        *)
(* get_qty, check_low_items, print_data, and load_data / save_data which   *)
(* move the whole dict through a JSON document in one file.                *)
(*                                                                         *)
(* A Python dict is an insertion-ordered mapping: it is modelled as a      *)
(* sequence of entries [k, q] with pairwise distinct keys.  Keys of        *)
(* different Python types are different keys (1 is not "1"), so a key is   *)
(* a tagged record.  The timestamp that prefixes a log record is left      *)
(* out: a log record is the text that follows it.                          *)
(***************************************************************************)
EXTENDS Integers, Sequences, FiniteSets, TLC

VARIABLES stock_data, disk, logs, last, saved, pc, third_qty

vars == <<stock_data, disk, logs, last, saved, pc, third_qty>>

(* ------------------------------ bounds --------------------------------- *)
\* stored quantities stay within -MaxDebt .. MaxQty
MaxDebt == 1
MaxQty == 2
\* most records in the caller's log list
MaxLog == 2

(* ------------------------------- keys ---------------------------------- *)
StrKey(s) == [t |-> "str", s |-> s, n |-> 0]
IntKey(n) == [t |-> "int", s |-> "", n |-> n]
NoneKey == [t |-> "none", s |-> "", n |-> 0]

\* keys for which `not item` is False
TruthyItems == {StrKey("a"), StrKey("1"), IntKey(1)}
\* keys for which `not item` is True: "", 0, None
FalsyItems == {StrKey(""), IntKey(0), NoneKey}
Items == TruthyItems \cup FalsyItems
\* the keys a caller that keeps a log adds, and those a caller that
\* saves and loads uses
LogItems == {StrKey("a")} \cup FalsyItems
DiskItems == {StrKey("1"), IntKey(1)}

\* a truth test that takes only None for false
TruthyUnlessNone(k) == k.t # "none"

\* Python truth value of a key: `not item` at line 25
Truthy(k) ==
    CASE k.t = "str" -> k.s # ""
      [] k.t = "int" -> k.n # 0
      [] OTHER -> FALSE

(* ---------------------------- quantities ------------------------------- *)
\* a quantity argument: an int, or a value that is not a number ("ten")
IntQty(n) == [num |-> TRUE, n |-> n]
StrQty == [num |-> FALSE, n |-> 0]
QtyRange == (0 - MaxDebt) .. MaxQty
QtyArgs == {IntQty(n) : n \in QtyRange} \cup {StrQty}
Thresholds == (0 - MaxDebt) .. (MaxQty + 1)

(* ------------------------- text conversions ---------------------------- *)
Digits == <<"0", "1", "2", "3", "4", "5", "6", "7", "8", "9">>

RECURSIVE NatToStr(_)
NatToStr(n) ==
    IF n < 10 THEN Digits[n + 1]
    ELSE NatToStr(n \div 10) \o Digits[(n % 10) + 1]

\* str(n) for an int
IntToStr(n) == IF n < 0 THEN "-" \o NatToStr(0 - n) ELSE NatToStr(n)

\* str(k), as the f-strings at lines 28 and 76 render a key
str(k) ==
    CASE k.t = "str" -> k.s
      [] k.t = "int" -> IntToStr(k.n)
      [] OTHER -> "None"

\* the text of a quantity argument
QtyText(qty) == IF qty.num THEN IntToStr(qty.n) ELSE "ten"

(* ---------------------------- dict helpers ----------------------------- *)
RECURSIVE IndexOf(_, _, _)
\* position of key k in d at or after position i, 0 when absent
IndexOf(d, k, i) ==
    IF i > Len(d) THEN 0
    ELSE IF d[i].k = k THEN i
    ELSE IndexOf(d, k, i + 1)

\* `k in d`
DictHas(d, k) == IndexOf(d, k, 1) # 0

\* d.get(k, default)
DictGet(d, k, default) ==
    IF DictHas(d, k) THEN d[IndexOf(d, k, 1)].q ELSE default

\* a store in which a key that is assigned to goes last, present or not
DictSetMovesLast(d, k, v) ==
    LET Other(e) == e.k # k
    IN  Append(SelectSeq(d, Other), [k |-> k, q |-> v])

\* d[k] = v: an existing key keeps its position, a new key goes last
DictSet(d, k, v) ==
    IF DictHas(d, k)
    THEN [d EXCEPT ![IndexOf(d, k, 1)] = [k |-> k, q |-> v]]
    ELSE Append(d, [k |-> k, q |-> v])

\* del d[k]: the other entries keep their order
DictDel(d, k) ==
    LET i == IndexOf(d, k, 1)
    IN  IF i = 0 THEN d
        ELSE SubSeq(d, 1, i - 1) \o SubSeq(d, i + 1, Len(d))

\* list(d): the keys in iteration order
DictKeys(d) == [i \in 1 .. Len(d) |-> d[i].k]

(* ------------------------------- JSON ---------------------------------- *)
\* the key of a JSON object member, as json.dumps writes a dict key
JsonKey(k) ==
    CASE k.t = "str" -> k.s
      [] k.t = "int" -> IntToStr(k.n)
      [] OTHER -> "null"

\* json.dumps(d): one member per entry, in order, keys turned into strings
json_dumps(d) == [i \in 1 .. Len(d) |-> [key |-> JsonKey(d[i].k), value |-> d[i].q]]

RECURSIVE LoadMembers(_, _, _)
LoadMembers(members, i, d) ==
    IF i > Len(members) THEN d
    ELSE LoadMembers(members, i + 1,
                     DictSet(d, StrKey(members[i].key), members[i].value))

\* json.loads(text) of an object: every key is a str, a repeated member
\* name overwrites the value of the earlier one
json_loads(members) == LoadMembers(members, 1, <<>>)

(* ------------------------------- files --------------------------------- *)
\* the default of the `file` parameter of load_data and save_data
FileName == "inventory.json"

NoFile == [exists |-> FALSE, wellformed |-> FALSE, members |-> <<>>]
Garbage == [exists |-> TRUE, wellformed |-> FALSE, members |-> <<>>]
Document(members) == [exists |-> TRUE, wellformed |-> TRUE, members |-> members]

\* what inventory.json may hold when the process starts
InitialFiles == {NoFile, Garbage, Document(<<[key |-> "1", value |-> 1]>>)}

(* ----------------------------- outcomes -------------------------------- *)
\* the last call: its name and arguments, what it returned (ret for
\* get_qty, items for check_low_items), the lines it printed, the exception
\* that left it ("" when it returned), and the dict and the caller's log
\* list as they were when it was made
Outcome(op, item, qty, threshold, sink, ret, items, out, err) ==
    [op |-> op, item |-> item, qty |-> qty, threshold |-> threshold,
     sink |-> sink, ret |-> ret, items |-> items, out |-> out, err |-> err,
     before |-> stock_data, logs_before |-> logs]

NoCall ==
    [op |-> "", item |-> NoneKey, qty |-> IntQty(0), threshold |-> 0,
     sink |-> FALSE, ret |-> 0, items |-> <<>>, out |-> <<>>, err |-> "",
     before |-> <<>>, logs_before |-> <<>>]

\* saved records the dict as it was at the last save_data call of this
\* process (made is FALSE until there is one)
NotSaved == [made |-> FALSE, store |-> <<>>]

\* pc is the statement of main that runs next, 0 when the caller is not
\* main; third_qty is the quantity of main's third call
InitStore ==
    /\ stock_data = <<>>
    /\ disk = NoFile
    /\ logs = <<>>
    /\ last = NoCall
    /\ saved = NotSaved
    /\ pc = 0
    /\ third_qty = StrQty

Init ==
    /\ stock_data = <<>>
    /\ disk \in InitialFiles
    /\ logs = <<>>
    /\ last = NoCall
    /\ saved = NotSaved
    /\ pc = 0
    /\ third_qty = StrQty

(* ------------------------------ add_item ------------------------------- *)
\* a credit that forgets the quantity already held
NewQtyOverwrite(d, item, qty) == qty.n

\* stock_data.get(item, 0) + qty
NewQty(d, item, qty) == DictGet(d, item, 0) + qty.n

\* the record add_item appends, without its timestamp
LogRecord(item, qty) == "Added " \o QtyText(qty) \o " of " \o str(item)

\* a log that takes the new record in front
LoggedFirst(l, record) == <<record>> \o l

\* logs.append(record) at line 28
Logged(l, record) == Append(l, record)

\* an add_item that writes its record before it adds
add_item_logs_first(item, qty, sink) ==
    /\ IF ~Truthy(item)
       THEN /\ UNCHANGED <<stock_data, logs>>
            /\ last' = Outcome("add_item", item, qty, 0, sink, 0, <<>>, <<>>, "")
       ELSE IF ~qty.num
       THEN /\ UNCHANGED stock_data
            /\ logs' = IF sink THEN Logged(logs, LogRecord(item, qty)) ELSE logs
            /\ last' = Outcome("add_item", item, qty, 0, sink, 0, <<>>, <<>>, "TypeError")
       ELSE /\ stock_data' = DictSet(stock_data, item, NewQty(stock_data, item, qty))
            /\ logs' = IF sink THEN Logged(logs, LogRecord(item, qty)) ELSE logs
            /\ last' = Outcome("add_item", item, qty, 0, sink, 0, <<>>, <<>>, "")
    /\ UNCHANGED <<disk, saved>>

\* an add_item that, like remove_item, deletes an entry it brings to <= 0
add_item_drops_nonpositive(item, qty, sink) ==
    /\ IF ~Truthy(item)
       THEN /\ UNCHANGED <<stock_data, logs>>
            /\ last' = Outcome("add_item", item, qty, 0, sink, 0, <<>>, <<>>, "")
       ELSE IF ~qty.num
       THEN /\ UNCHANGED <<stock_data, logs>>
            /\ last' = Outcome("add_item", item, qty, 0, sink, 0, <<>>, <<>>, "TypeError")
       ELSE /\ stock_data' =
                 IF NewQty(stock_data, item, qty) <= 0
                 THEN DictDel(stock_data, item)
                 ELSE DictSet(stock_data, item, NewQty(stock_data, item, qty))
            /\ logs' = IF sink THEN Logged(logs, LogRecord(item, qty)) ELSE logs
            /\ last' = Outcome("add_item", item, qty, 0, sink, 0, <<>>, <<>>, "")
    /\ UNCHANGED <<disk, saved>>

\* an add_item that passes over a quantity that is not a number
add_item_skips_bad_qty(item, qty, sink) ==
    /\ IF ~Truthy(item) \/ ~qty.num
       THEN /\ UNCHANGED <<stock_data, logs>>
            /\ last' = Outcome("add_item", item, qty, 0, sink, 0, <<>>, <<>>, "")
       ELSE /\ stock_data' = DictSet(stock_data, item, NewQty(stock_data, item, qty))
            /\ logs' = IF sink THEN Logged(logs, LogRecord(item, qty)) ELSE logs
            /\ last' = Outcome("add_item", item, qty, 0, sink, 0, <<>>, <<>>, "")
    /\ UNCHANGED <<disk, saved>>

\* add_item(item, qty, logs); sink says whether the caller passed its list
add_item(item, qty, sink) ==
    /\ IF ~Truthy(item)
       THEN /\ UNCHANGED <<stock_data, logs>>
            /\ last' = Outcome("add_item", item, qty, 0, sink, 0, <<>>, <<>>, "")
       ELSE IF ~qty.num
       THEN \* int + str raises before anything is assigned
            /\ UNCHANGED <<stock_data, logs>>
            /\ last' = Outcome("add_item", item, qty, 0, sink, 0, <<>>, <<>>, "TypeError")
       ELSE /\ stock_data' = DictSet(stock_data, item, NewQty(stock_data, item, qty))
            /\ logs' = IF sink THEN Logged(logs, LogRecord(item, qty)) ELSE logs
            /\ last' = Outcome("add_item", item, qty, 0, sink, 0, <<>>, <<>>, "")
    /\ UNCHANGED <<disk, saved>>

(* ----------------------------- remove_item ----------------------------- *)
\* a test that lets a quantity of zero stay
DepletedBelowZero(q) == q < 0

\* `stock_data[item] <= 0` at line 38
Depleted(q) == q <= 0

\* a debit with the sign of the quantity turned
DebitedWrongSign(d, item, qty) == DictGet(d, item, 0) + qty.n

\* `stock_data[item] -= qty` at line 37: the quantity it assigns
Debited(d, item, qty) == DictGet(d, item, 0) - qty.n

\* a remove_item without the `except KeyError` clause
remove_item_no_except(item, qty) ==
    /\ IF ~DictHas(stock_data, item)
       THEN /\ UNCHANGED stock_data
            /\ last' = Outcome("remove_item", item, qty, 0, FALSE, 0, <<>>, <<>>, "KeyError")
       ELSE IF ~qty.num
       THEN /\ UNCHANGED stock_data
            /\ last' = Outcome("remove_item", item, qty, 0, FALSE, 0, <<>>, <<>>, "TypeError")
       ELSE /\ stock_data' =
                 IF Depleted(Debited(stock_data, item, qty))
                 THEN DictDel(stock_data, item)
                 ELSE DictSet(stock_data, item, Debited(stock_data, item, qty))
            /\ last' = Outcome("remove_item", item, qty, 0, FALSE, 0, <<>>, <<>>, "")
    /\ UNCHANGED <<disk, logs, saved>>

remove_item(item, qty) ==
    /\ IF ~DictHas(stock_data, item)
       THEN \* KeyError, caught
            /\ UNCHANGED stock_data
            /\ last' = Outcome("remove_item", item, qty, 0, FALSE, 0, <<>>, <<>>, "")
       ELSE IF ~qty.num
       THEN \* int - str raises before anything is assigned
            /\ UNCHANGED stock_data
            /\ last' = Outcome("remove_item", item, qty, 0, FALSE, 0, <<>>, <<>>, "TypeError")
       ELSE /\ stock_data' =
                 IF Depleted(Debited(stock_data, item, qty))
                 THEN DictDel(stock_data, item)
                 ELSE DictSet(stock_data, item, Debited(stock_data, item, qty))
            /\ last' = Outcome("remove_item", item, qty, 0, FALSE, 0, <<>>, <<>>, "")
    /\ UNCHANGED <<disk, logs, saved>>

(* ------------------------------- get_qty ------------------------------- *)
\* a get_qty that uses stock_data.setdefault(item, 0)
get_qty_setdefault(item) ==
    /\ last' = Outcome("get_qty", item, IntQty(0), 0, FALSE,
                       DictGet(stock_data, item, 0), <<>>, <<>>, "")
    /\ stock_data' = IF DictHas(stock_data, item) THEN stock_data
                     ELSE DictSet(stock_data, item, 0)
    /\ UNCHANGED <<disk, logs, saved>>

get_qty(item) ==
    /\ last' = Outcome("get_qty", item, IntQty(0), 0, FALSE,
                       DictGet(stock_data, item, 0), <<>>, <<>>, "")
    /\ UNCHANGED <<stock_data, disk, logs, saved>>

(* --------------------------- check_low_items --------------------------- *)
\* a test that also reports a quantity equal to the threshold
BelowOrAt(q, threshold) == q <= threshold

\* `qty < threshold` at line 86
Below(q, threshold) == q < threshold

RECURSIVE LowItems(_, _, _, _)
\* the loop of check_low_items from entry i on, result being the list so far
LowItems(d, threshold, i, result) ==
    IF i > Len(d) THEN result
    ELSE LowItems(d, threshold, i + 1,
                  IF Below(d[i].q, threshold) THEN Append(result, d[i].k) ELSE result)

check_low_items(threshold) ==
    /\ last' = Outcome("check_low_items", NoneKey, IntQty(0), threshold, FALSE, 0,
                       LowItems(stock_data, threshold, 1, <<>>), <<>>, "")
    /\ UNCHANGED <<stock_data, disk, logs, saved>>

(* ------------------------------ print_data ----------------------------- *)
\* the lines print_data writes: the header, then one line per entry
ReportLines(d) ==
    <<"Items Report">> \o [i \in 1 .. Len(d) |-> str(d[i].k) \o " -> " \o IntToStr(d[i].q)]

print_data ==
    /\ last' = Outcome("print_data", NoneKey, IntQty(0), 0, FALSE, 0, <<>>,
                       ReportLines(stock_data), "")
    /\ UNCHANGED <<stock_data, disk, logs, saved>>

(* ------------------------------ load_data ------------------------------ *)
\* a load_data that passes on FileNotFoundError
load_data_keeps_on_missing ==
    /\ IF ~disk.exists
       THEN /\ UNCHANGED stock_data
            /\ last' = Outcome("load_data", NoneKey, IntQty(0), 0, FALSE, 0, <<>>, <<>>, "")
       ELSE IF ~disk.wellformed
       THEN /\ UNCHANGED stock_data
            /\ last' = Outcome("load_data", NoneKey, IntQty(0), 0, FALSE, 0, <<>>,
                               <<"Error decoding JSON data in " \o FileName>>, "")
       ELSE /\ stock_data' = json_loads(disk.members)
            /\ last' = Outcome("load_data", NoneKey, IntQty(0), 0, FALSE, 0, <<>>, <<>>, "")
    /\ UNCHANGED <<disk, logs, saved>>

load_data ==
    /\ IF ~disk.exists
       THEN \* FileNotFoundError
            /\ stock_data' = <<>>
            /\ last' = Outcome("load_data", NoneKey, IntQty(0), 0, FALSE, 0, <<>>, <<>>, "")
       ELSE IF ~disk.wellformed
       THEN \* json.JSONDecodeError: the message is printed, nothing is assigned
            /\ UNCHANGED stock_data
            /\ last' = Outcome("load_data", NoneKey, IntQty(0), 0, FALSE, 0, <<>>,
                               <<"Error decoding JSON data in " \o FileName>>, "")
       ELSE /\ stock_data' = json_loads(disk.members)
            /\ last' = Outcome("load_data", NoneKey, IntQty(0), 0, FALSE, 0, <<>>, <<>>, "")
    /\ UNCHANGED <<disk, logs, saved>>

(* ------------------------------ save_data ------------------------------ *)
save_data ==
    /\ disk' = Document(json_dumps(stock_data))
    /\ saved' = [made |-> TRUE, store |-> stock_data]
    /\ last' = Outcome("save_data", NoneKey, IntQty(0), 0, FALSE, 0, <<>>, <<>>, "")
    /\ UNCHANGED <<stock_data, logs>>

(* --------------------------- specifications ---------------------------- *)
\* the calls explored: those that keep every stored quantity within
\* QtyRange and the caller's log within MaxLog records
AddFits(item, qty, sink) ==
    (Truthy(item) /\ qty.num)
        => /\ NewQty(stock_data, item, qty) \in QtyRange
           /\ sink => Len(logs) < MaxLog
RemoveFits(item, qty) ==
    (DictHas(stock_data, item) /\ qty.num)
        => Debited(stock_data, item, qty) <= MaxQty

\* a caller that adds, removes and queries, with no log list and no file
Next ==
    \/ \E item \in Items, qty \in QtyArgs :
         AddFits(item, qty, FALSE) /\ add_item(item, qty, FALSE)
           /\ UNCHANGED <<pc, third_qty>>
    \/ \E item \in Items, qty \in QtyArgs :
         RemoveFits(item, qty) /\ remove_item(item, qty) /\ UNCHANGED <<pc, third_qty>>
    \/ \E item \in Items : get_qty(item) /\ UNCHANGED <<pc, third_qty>>
    \/ \E threshold \in Thresholds :
         check_low_items(threshold) /\ UNCHANGED <<pc, third_qty>>
    \/ print_data /\ UNCHANGED <<pc, third_qty>>

Spec == InitStore /\ [][Next]_vars

\* a caller that passes its log list to some of its add_item calls
NextLog ==
    \/ \E item \in LogItems, qty \in QtyArgs, sink \in BOOLEAN :
         AddFits(item, qty, sink) /\ add_item(item, qty, sink)
           /\ UNCHANGED <<pc, third_qty>>
    \/ \E item \in Items, qty \in QtyArgs :
         RemoveFits(item, qty) /\ remove_item(item, qty) /\ UNCHANGED <<pc, third_qty>>
    \/ \E item \in LogItems : get_qty(item) /\ UNCHANGED <<pc, third_qty>>
    \/ \E threshold \in Thresholds :
         check_low_items(threshold) /\ UNCHANGED <<pc, third_qty>>

SpecLog == InitStore /\ [][NextLog]_vars

\* a caller that saves to and loads from inventory.json
NextDisk ==
    \/ \E item \in DiskItems, qty \in QtyArgs :
         AddFits(item, qty, FALSE) /\ add_item(item, qty, FALSE)
           /\ UNCHANGED <<pc, third_qty>>
    \/ \E item \in DiskItems, qty \in QtyArgs :
         RemoveFits(item, qty) /\ remove_item(item, qty) /\ UNCHANGED <<pc, third_qty>>
    \/ load_data /\ UNCHANGED <<pc, third_qty>>
    \/ save_data /\ UNCHANGED <<pc, third_qty>>

SpecDisk == Init /\ [][NextDisk]_vars

\* a caller that adds only quantities > 0 and removes only quantities >= 0
PositiveQtys == {IntQty(n) : n \in 1 .. MaxQty}
NonNegativeQtys == {IntQty(n) : n \in 0 .. MaxQty}

NextPositive ==
    \/ \E item \in Items, qty \in PositiveQtys :
         AddFits(item, qty, FALSE) /\ add_item(item, qty, FALSE)
           /\ UNCHANGED <<pc, third_qty>>
    \/ \E item \in Items, qty \in NonNegativeQtys :
         RemoveFits(item, qty) /\ remove_item(item, qty) /\ UNCHANGED <<pc, third_qty>>
    \/ \E item \in Items : get_qty(item) /\ UNCHANGED <<pc, third_qty>>

SpecPositive == InitStore /\ [][NextPositive]_vars

(* -------------------------------- main --------------------------------- *)
\* the default of the `threshold` parameter of check_low_items
DefaultThreshold == 5

\* the statements of main, lines 93 to 102, one per step; a call that raises
\* ends main, since main catches nothing
main ==
    /\ pc \in 1 .. 10
    /\ last.err = ""
    /\ \/ pc = 1 /\ add_item(StrKey("apple"), IntQty(10), FALSE)
       \/ pc = 2 /\ add_item(StrKey("banana"), IntQty(0 - 2), FALSE)
       \/ pc = 3 /\ add_item(IntKey(123), third_qty, FALSE)
       \/ pc = 4 /\ remove_item(StrKey("apple"), IntQty(3))
       \/ pc = 5 /\ remove_item(StrKey("orange"), IntQty(1))
       \/ pc = 6 /\ get_qty(StrKey("apple"))
       \/ pc = 7 /\ check_low_items(DefaultThreshold)
       \/ pc = 8 /\ save_data
       \/ pc = 9 /\ load_data
       \/ pc = 10 /\ print_data
    /\ pc' = IF last'.err = "" THEN pc + 1 ELSE pc
    /\ UNCHANGED third_qty

\* the quantity of the third call: "ten" as main is written, or an int, with
\* which the statements after it are reached
ThirdQtys == {StrQty, IntQty(10), IntQty(3), IntQty(1), IntQty(0 - 2)}

InitMain ==
    /\ stock_data = <<>>
    /\ disk \in InitialFiles
    /\ logs = <<>>
    /\ last = NoCall
    /\ saved = NotSaved
    /\ pc = 1
    /\ third_qty \in ThirdQtys

NextMain == main

SpecMain == InitMain /\ [][NextMain]_vars

(* ------------------------------ properties ----------------------------- *)
\* the keys of d, and the keys check_low_items(threshold) would return
KeySet(d) == {d[i].k : i \in 1 .. Len(d)}
LowSet(d, threshold) ==
    LET r == LowItems(d, threshold, 1, <<>>) IN {r[i] : i \in 1 .. Len(r)}

\* the entries of d other than the one of key k are those of e
SameElsewhere(d, e, k) ==
    \A x \in (KeySet(d) \cup KeySet(e)) \ {k} :
        /\ DictHas(d, x) <=> DictHas(e, x)
        /\ DictGet(d, x, 0) = DictGet(e, x, 0)

\* the last call was remove_item and it returned
Removed == last.op = "remove_item" /\ last.err = ""

\* C1 as stated: right after a remove_item call returns, no entry of the
\* dict has a quantity <= 0.
C1_NoNonPositiveEntry ==
    Removed => \A i \in 1 .. Len(stock_data) : stock_data[i].q > 0

\* C1, amended: right after remove_item(item, qty) returns, the dict has no
\* entry for item with a quantity <= 0 (entries of other keys may be <= 0).
C1_RemovedItemPositiveOrGone ==
    Removed => (DictHas(stock_data, last.item) => DictGet(stock_data, last.item, 0) > 0)

\* remove_item deleted the entry it brought to <= 0 while another entry,
\* credited below zero by add_item, stays
C1_Witness ==
    /\ Removed
    /\ DictHas(last.before, last.item)
    /\ ~DictHas(stock_data, last.item)
    /\ \E i \in 1 .. Len(stock_data) : stock_data[i].q <= 0

\* C2: load_data on a file that exists and does not parse leaves the dict
\* empty, prints a diagnostic and raises nothing.
C2_UnparsableFileEmptiesStore ==
    (last.op = "load_data" /\ disk.exists /\ ~disk.wellformed)
        => (stock_data = <<>> /\ last.out # <<>> /\ last.err = "")

\* the (str(key), quantity) pairs of a dict
StrPairs(d) == {<<str(d[i].k), d[i].q>> : i \in 1 .. Len(d)}

\* C3: load_data right after save_data gives a dict with the same
\* (str(key), quantity) pairs as before the save, none lost or merged.
C3_RoundTrip ==
    [][(last.op = "save_data" /\ load_data)
         => (StrPairs(stock_data') = StrPairs(stock_data)
             /\ Len(stock_data') = Len(stock_data))]_vars

\* the last call was add_item with a truthy key and an int quantity
Added == last.op = "add_item" /\ last.item \in TruthyItems /\ last.qty.num

\* C4: add_item(i, q) with a truthy i and an int q sets the quantity of i to
\* its prior quantity (0 when absent) plus q and changes no other entry; two
\* such calls in a row on an absent i leave it at q1 + q2.
C4_AddCredits ==
    /\ [](Added =>
            /\ DictHas(stock_data, last.item)
            /\ DictGet(stock_data, last.item, 0)
                 = DictGet(last.before, last.item, 0) + last.qty.n
            /\ SameElsewhere(last.before, stock_data, last.item))
    /\ [][\A q2 \in QtyArgs :
            (Added /\ ~DictHas(last.before, last.item) /\ q2.num
               /\ add_item(last.item, q2, FALSE))
            => DictGet(stock_data', last.item, 0) = last.qty.n + q2.n]_vars

\* add_item credited a key that was already present, next to another entry
C4_Witness ==
    /\ Added
    /\ DictHas(last.before, last.item)
    /\ DictGet(last.before, last.item, 0) # 0
    /\ last.qty.n # 0
    /\ Len(stock_data) > 1

\* C5: remove_item(i, q) on a present i of quantity n with q >= n deletes
\* the entry: get_qty(i) is 0, no check_low_items(threshold) lists i, and i
\* is not among the keys iterated.
C5_RemoveAllDeletes ==
    (/\ Removed
     /\ last.qty.num
     /\ DictHas(last.before, last.item)
     /\ last.qty.n >= DictGet(last.before, last.item, 0))
        => /\ DictGet(stock_data, last.item, 0) = 0
           /\ \A t \in Thresholds : last.item \notin LowSet(stock_data, t)
           /\ \A i \in 1 .. Len(stock_data) : DictKeys(stock_data)[i] # last.item

\* remove_item took exactly the quantity held, from an entry that was not
\* the only one
C5_Witness ==
    /\ Removed
    /\ last.qty.num
    /\ DictHas(last.before, last.item)
    /\ last.qty.n = DictGet(last.before, last.item, 0)
    /\ stock_data # <<>>
    /\ ~DictHas(stock_data, last.item)

\* C6: remove_item(i, q) on an absent i leaves the dict as it was, with no
\* entry for i, appends nothing to the log and raises nothing.
C6_RemoveAbsentIsNoOp ==
    (last.op = "remove_item" /\ ~DictHas(last.before, last.item))
        => /\ stock_data = last.before
           /\ ~DictHas(stock_data, last.item)
           /\ logs = last.logs_before
           /\ last.err = ""

\* remove_item was given a truthy key the non-empty dict does not hold,
\* while the caller's log holds a record
C6_Witness ==
    /\ last.op = "remove_item"
    /\ last.item \in TruthyItems
    /\ ~DictHas(last.before, last.item)
    /\ last.before # <<>>
    /\ last.logs_before # <<>>

\* C7: add_item with a falsy key ("", 0, None) and any quantity changes
\* neither the dict nor the caller's log, and raises nothing.
C7_FalsyAddIsNoOp ==
    (last.op = "add_item" /\ last.item \in FalsyItems)
        => /\ stock_data = last.before
           /\ logs = last.logs_before
           /\ DictGet(stock_data, last.item, 0) = DictGet(last.before, last.item, 0)
           /\ last.err = ""

\* add_item was given a falsy key and the caller's log, which already holds
\* a record, while the dict holds an entry
C7_Witness ==
    /\ last.op = "add_item"
    /\ last.item \in FalsyItems
    /\ last.sink
    /\ last.logs_before # <<>>
    /\ last.before # <<>>

\* C8: load_data on a file that does not exist leaves the dict empty and
\* raises nothing; get_qty is then 0 for every key.
C8_MissingFileEmptiesStore ==
    (last.op = "load_data" /\ ~disk.exists)
        => /\ stock_data = <<>>
           /\ last.err = ""
           /\ \A x \in Items : DictGet(stock_data, x, 0) = 0

\* load_data found no file while the dict held entries
C8_Witness ==
    /\ last.op = "load_data"
    /\ ~disk.exists
    /\ last.before # <<>>

\* C9: check_low_items(t) returns the keys of quantity < t and no other
\* (a quantity equal to t is left out), each once, in the order of the
\* dict, and leaves the dict as it was.
C9_LowItemsExact ==
    last.op = "check_low_items"
        => /\ {last.items[i] : i \in 1 .. Len(last.items)}
                = {k \in KeySet(stock_data) : DictGet(stock_data, k, 0) < last.threshold}
           /\ \A i, j \in 1 .. Len(last.items) :
                i < j => IndexOf(stock_data, last.items[i], 1)
                           < IndexOf(stock_data, last.items[j], 1)
           /\ stock_data = last.before

\* check_low_items on three entries, the first above the threshold, the
\* second below it and the third equal to it, returned the second alone
C9_Witness ==
    /\ last.op = "check_low_items"
    /\ Len(stock_data) = 3
    /\ stock_data[1].q > last.threshold
    /\ stock_data[2].q < last.threshold
    /\ stock_data[3].q = last.threshold
    /\ last.items = <<stock_data[2].k>>

\* C10: add_item with a truthy key and an int quantity deletes nothing: the
\* key is present afterwards, also with a resulting quantity <= 0 (which
\* get_qty returns and check_low_items lists), and so is every other key.
C10_AddNeverDeletes ==
    Added
        => /\ DictHas(stock_data, last.item)
           /\ KeySet(last.before) \subseteq KeySet(stock_data)
           /\ DictGet(stock_data, last.item, 0)
                = DictGet(last.before, last.item, 0) + last.qty.n
           /\ \A t \in Thresholds :
                DictGet(stock_data, last.item, 0) < t => last.item \in LowSet(stock_data, t)

\* add_item with a negative quantity on the empty dict left the key present
\* below zero
C10_Witness ==
    /\ Added
    /\ last.before = <<>>
    /\ DictHas(stock_data, last.item)
    /\ DictGet(stock_data, last.item, 0) < 0

\* a dict with every key replaced by its string form, in the same order
KeysAsStr(d) == [i \in 1 .. Len(d) |-> [k |-> StrKey(str(d[i].k)), q |-> d[i].q]]

\* C11: save_data leaves the dict as it was, and load_data after a save,
\* whatever add_item and remove_item calls came in between, gives back the
\* dict as it was at the save (keys read in their string form), with no
\* entry added or changed since.
C11_LoadRestoresSavedStore ==
    /\ last.op = "save_data" => stock_data = last.before
    /\ (last.op = "load_data" /\ saved.made) => stock_data = KeysAsStr(saved.store)

\* C12: remove_item(i, q) on a present i of quantity n with q < n leaves i
\* present with quantity n - q and changes no other entry.
C12_RemovePartKeeps ==
    (/\ Removed
     /\ last.qty.num
     /\ DictHas(last.before, last.item)
     /\ last.qty.n < DictGet(last.before, last.item, 0))
        => /\ \E i \in 1 .. Len(stock_data) :
                /\ stock_data[i].k = last.item
                /\ stock_data[i].q = DictGet(last.before, last.item, 0) - last.qty.n
           /\ SameElsewhere(last.before, stock_data, last.item)

\* remove_item took a positive part of what an entry held, next to another
\* entry
C12_Witness ==
    /\ Removed
    /\ last.qty.num
    /\ last.qty.n > 0
    /\ DictGet(last.before, last.item, 0) > last.qty.n
    /\ DictGet(stock_data, last.item, 0) > 0
    /\ Len(stock_data) > 1

\* C13: in main as written, add_item(123, "ten") raises TypeError and
\* nothing catches it: the run ends there with the dict {apple: 10,
\* banana: -2}, no entry for 123, and no later statement of main is run.
C13_MainEndsAtThirdCall ==
    third_qty = StrQty
        => /\ pc <= 3
           /\ last.op \in {"", "add_item"}
           /\ ~saved.made
           /\ last.item = IntKey(123)
                => /\ last.err = "TypeError"
                   /\ stock_data = <<[k |-> StrKey("apple"), q |-> 10],
                                     [k |-> StrKey("banana"), q |-> 0 - 2]>>
                   /\ ~DictHas(stock_data, IntKey(123))
                   /\ ~ENABLED NextMain

\* main as written has made its third call
C13_Witness ==
    /\ third_qty = StrQty
    /\ last.op = "add_item"
    /\ last.item = IntKey(123)
    /\ last.err = "TypeError"

\* C14: get_qty(item) returns the quantity held for item, or 0 when the
\* dict holds no entry for it, and leaves the dict as it was.
C14_GetQtyReads ==
    last.op = "get_qty"
        => /\ \A i \in 1 .. Len(stock_data) :
                stock_data[i].k = last.item => last.ret = stock_data[i].q
           /\ last.item \notin KeySet(stock_data) => last.ret = 0
           /\ last.err = ""
           /\ stock_data = last.before

\* get_qty was asked for a truthy key the dict does not hold, while it
\* holds another with a quantity other than 0
C14_Witness ==
    /\ last.op = "get_qty"
    /\ last.item \in TruthyItems
    /\ last.item \notin KeySet(stock_data)
    /\ \E i \in 1 .. Len(stock_data) : stock_data[i].q # 0

\* l is m with one record more at its end
OneMoreAtEnd(l, m) == Len(l) = Len(m) + 1 /\ SubSeq(l, 1, Len(m)) = m

\* C15 as stated: the caller's log gets one record more, at its end, from
\* every add_item call with a truthy key that is given the log, and is left
\* as it was by every other call.
C15_OneRecordPerTruthyAdd ==
    IF last.op = "add_item" /\ last.item \in TruthyItems /\ last.sink
    THEN OneMoreAtEnd(logs, last.logs_before)
    ELSE logs = last.logs_before

\* C15, amended: the caller's log gets one record more, at its end, from
\* every add_item call with a truthy key that is given the log and returns,
\* and is left as it was by every other call, an add_item that raises
\* included.
C15_OneRecordPerCompletedAdd ==
    IF last.op = "add_item" /\ last.item \in TruthyItems /\ last.sink /\ last.err = ""
    THEN OneMoreAtEnd(logs, last.logs_before)
    ELSE logs = last.logs_before

\* add_item put a second record, unlike the first, into the caller's log
C15_Witness ==
    /\ last.op = "add_item"
    /\ last.sink
    /\ Len(logs) = 2
    /\ last.logs_before = <<logs[1]>>
    /\ logs[2] # logs[1]

\* C17: add_item with a truthy key and a quantity that is not a number
\* raises and leaves the dict and the caller's log as they were.
C17_FailedAddChangesNothing ==
    (last.op = "add_item" /\ last.item \in TruthyItems /\ ~last.qty.num)
        => /\ last.err = "TypeError"
           /\ stock_data = last.before
           /\ logs = last.logs_before

\* add_item raised on a key the dict holds, with the caller's log passed
\* and not empty
C17_Witness ==
    /\ last.op = "add_item"
    /\ last.err = "TypeError"
    /\ last.sink
    /\ last.logs_before # <<>>
    /\ DictHas(last.before, last.item)

\* C16: from the empty dict, with add_item given only quantities > 0 and
\* remove_item only quantities >= 0, every quantity in the dict is > 0, and
\* get_qty returns a number > 0 exactly for the keys the dict holds.
C16_AllQuantitiesPositive ==
    /\ \A i \in 1 .. Len(stock_data) : stock_data[i].q > 0
    /\ last.op = "get_qty"
         => (last.ret > 0 <=> last.item \in KeySet(stock_data))

\* remove_item took the whole of one entry, which is gone, and the dict
\* still holds another
C16_Witness ==
    /\ Removed
    /\ last.qty.n > 0
    /\ DictGet(last.before, last.item, 0) = last.qty.n
    /\ ~DictHas(stock_data, last.item)
    /\ stock_data # <<>>

\* the keys of d in order, k left out
KeysWithout(d, k) ==
    LET Other(x) == x # k
    IN  SelectSeq(DictKeys(d), Other)

\* C18: the dict iterates its keys in the order in which they were last
\* created. add_item on a key the dict holds and remove_item that leaves the
\* entry keep the order of the keys; add_item on a key the dict does not
\* hold (never held, or deleted since) puts it last; remove_item that deletes
\* the entry keeps the order of the others; check_low_items and print_data
\* go through the keys in that order.
C18_KeysInCreationOrder ==
    /\ (Added /\ last.err = "")
         => DictKeys(stock_data)
              = IF DictHas(last.before, last.item)
                THEN DictKeys(last.before)
                ELSE Append(DictKeys(last.before), last.item)
    /\ Removed
         => DictKeys(stock_data)
              = IF DictHas(stock_data, last.item)
                THEN DictKeys(last.before)
                ELSE KeysWithout(last.before, last.item)
    /\ (last.op = "check_low_items"
          /\ \A i \in 1 .. Len(stock_data) : stock_data[i].q < last.threshold)
         => last.items = DictKeys(stock_data)
    /\ last.op = "print_data"
         => /\ Len(last.out) = Len(stock_data) + 1
            /\ \A i \in 1 .. Len(stock_data) :
                 last.out[i + 1]
                   = str(stock_data[i].k) \o " -> " \o IntToStr(stock_data[i].q)

\* add_item created an entry for a key that two-entry dict did not hold,
\* after the two it held
C18_Witness ==
    /\ Added
    /\ last.err = ""
    /\ Len(last.before) = 2
    /\ ~DictHas(last.before, last.item)
    /\ Len(stock_data) = 3
    /\ stock_data[3].k = last.item
    /\ stock_data[1].k = last.before[1].k
====
